---- MODULE Spec2Model ----
(***************************************************************************)
(* Dynamical billiard: the collision-event engine of ads.py (rounded       *)
(* rectangle, analytic solver) and billiard_sim.py (implicit curve with a  *)
(* hole, ray-marching solver), their event generator and their trajectory  *)
(* evaluator.                                                              *)
(*                                                                         *)
(* Reals are fixed-point numbers: the integer n stands for n / Scale.      *)
(* Sums and differences are exact; a product, a quotient and a square root *)
(* round to the nearest representable value, as float64 does at its own    *)
(* resolution.  The solvers' tolerances (1e-9, 1e-6, 1e-5) are far below   *)
(* 1 / Scale and far above float64's rounding error; they are kept as the  *)
(* smallest amounts that stay above the rounding error of this arithmetic. *)
(***************************************************************************)
EXTENDS Integers, Sequences, FiniteSets

\* ------------------------------------------------------------ arithmetic

Scale == 10 * 10 * 10

\* the element of a one-element set.  The({e : x \in {v}}) is e where
\* x = v, with v evaluated once: a local that later steps read many times
The(S) == CHOOSE x \in S : TRUE

Abs(a) == IF a < 0 THEN -a ELSE a

Sgn(a) == IF a < 0 THEN -1 ELSE 1

\* n / d rounded to the nearest integer (n >= 0, d > 0)
Round(n, d) == (2 * n + d) \div (2 * d)

\* a * b in fixed point; the product is split so that no partial result
\* leaves the 32-bit integers
MulAbs(a, b) ==
    LET qa == a \div Scale
        ra == a % Scale
        qb == b \div Scale
        rb == b % Scale
    IN  qa * qb * Scale + qa * rb + ra * qb + Round(ra * rb, Scale)

Mul(a, b) == Sgn(a) * Sgn(b) * MulAbs(Abs(a), Abs(b))

\* a / b in fixed point (b # 0)
DivAbs(a, b) == (a \div b) * Scale + Round((a % b) * Scale, b)

Div(a, b) == Sgn(a) * Sgn(b) * DivAbs(Abs(a), Abs(b))

\* r * r <= a * Scale, decided without forming a * Scale
SqLeq(r, a) ==
    IF r = 0 THEN TRUE
    ELSE IF a \div r >= r THEN TRUE
    ELSE r <= (a \div r) * Scale + ((a % r) * Scale) \div r

\* above the square root of every value the solvers form
SqrtCeil == 1500 * Scale

Largest(S) == CHOOSE x \in S : \A y \in S : y <= x

\* the largest r below SqrtCeil with r * r <= a * Scale, one decimal digit
\* of r at a time
RECURSIVE SqrtSearch(_, _, _)
SqrtSearch(a, lo, step) ==
    IF step = 0 THEN lo
    ELSE The({ SqrtSearch(a, r, step \div 10)
             : r \in {Largest({c \in {lo + d * step : d \in 0..9} :
                                   c < SqrtCeil /\ SqLeq(c, a)})} })

\* np.sqrt(a) for a >= 0
Sqrt(a) == The({SqrtSearch(x, 0, Scale * Scale) : x \in {a}})

\* np.dot on 2-vectors
Dot(u, v) ==
    The({Mul(a[1], b[1]) + Mul(a[2], b[2]) : a \in {u}, b \in {v}})

\* np.linalg.norm
Norm(u) == Sqrt(Dot(u, u))

\* float('inf')
Inf == 2147483647

\* ------------------------------------------------ ads.py: analytic solver

\* t > 1e-9
EpsTime == 5

\* the corner quadrant test's 1e-6
QuadTol == 5

NoNormal == <<0, 0>>

Best(t, n) == [t |-> t, n |-> n]

\* one straight wall: the time to the wall's line, the other coordinate
\* there, and the acceptance test of ads.py
WallHit(best, wallPos, p, v, q, vq, span, n) ==
    The({ The({ IF t > EpsTime /\ Abs(hit) <= span /\ t < best.t
                THEN Best(t, n) ELSE best
              : hit \in {q + Mul(vq, t)} })
        : t \in {Div(wallPos - p, v)} })

\* Walls with every wall's normal pointing out of the table
WallsOutward(P, V, W, H, R) ==
    LET hw == Div(W, 2 * Scale)
        hh == Div(H, 2 * Scale)
        b0 == Best(Inf, NoNormal)
    IN  The({ IF V[2] > 0
              THEN WallHit(b1, hh, P[2], V[2], P[1], V[1], hw - R, <<0, Scale>>)
              ELSE IF V[2] < 0
              THEN WallHit(b1, -hh, P[2], V[2], P[1], V[1], hw - R, <<0, -Scale>>)
              ELSE b1
            : b1 \in {IF V[1] > 0
                      THEN WallHit(b0, hw, P[1], V[1], P[2], V[2], hh - R,
                                   <<Scale, 0>>)
                      ELSE IF V[1] < 0
                      THEN WallHit(b0, -hw, P[1], V[1], P[2], V[2], hh - R,
                                   <<-Scale, 0>>)
                      ELSE b0} })

Walls(P, V, W, H, R) ==
    LET hw == Div(W, 2 * Scale)
        hh == Div(H, 2 * Scale)
        b0 == Best(Inf, NoNormal)
    IN  The({ IF V[2] > 0
              THEN WallHit(b1, hh, P[2], V[2], P[1], V[1], hw - R, <<0, -Scale>>)
              ELSE IF V[2] < 0
              THEN WallHit(b1, -hh, P[2], V[2], P[1], V[1], hw - R, <<0, Scale>>)
              ELSE b1
            : b1 \in {IF V[1] > 0
                      THEN WallHit(b0, hw, P[1], V[1], P[2], V[2], hh - R,
                                   <<-Scale, 0>>)
                      ELSE IF V[1] < 0
                      THEN WallHit(b0, -hw, P[1], V[1], P[2], V[2], hh - R,
                                   <<Scale, 0>>)
                      ELSE b0} })

Centers(W, H, R) ==
    LET hw == Div(W, 2 * Scale)
        hh == Div(H, 2 * Scale)
    IN  << <<hw - R, hh - R>>, <<-hw + R, hh - R>>,
           <<-hw + R, -hh + R>>, <<hw - R, -hh + R>> >>

\* the hit lies in the corner's own quadrant
InQuadrant(C, hit) ==
    /\ \/ (C[1] > 0 /\ hit[1] >= C[1] - QuadTol)
       \/ (C[1] < 0 /\ hit[1] <= C[1] + QuadTol)
    /\ \/ (C[2] > 0 /\ hit[2] >= C[2] - QuadTol)
       \/ (C[2] < 0 /\ hit[2] <= C[2] + QuadTol)

\* (C - hit) / R, normalised
CornerNormal(C, hit, R) ==
    The({ The({ <<Div(n[1], len), Div(n[2], len)>> : len \in {Norm(n)} })
        : n \in {<<Div(C[1] - hit[1], R), Div(C[2] - hit[2], R)>>} })

\* RootHit without the t > 1e-9 test
RootHitAnyTime(best, t, C, P, V, R) ==
    IF t < best.t
    THEN The({ IF InQuadrant(C, hit) THEN Best(t, CornerNormal(C, hit, R))
               ELSE best
             : hit \in {<<P[1] + Mul(V[1], t), P[2] + Mul(V[2], t)>>} })
    ELSE best

\* one root of one corner circle
RootHit(best, t, C, P, V, R) ==
    IF t > EpsTime /\ t < best.t
    THEN The({ IF InQuadrant(C, hit) THEN Best(t, CornerNormal(C, hit, R))
               ELSE best
             : hit \in {<<P[1] + Mul(V[1], t), P[2] + Mul(V[2], t)>>} })
    ELSE best

\* the two roots t1, t2 of one corner circle, tried in order
BothRoots(best, b, root, v_sq, C, P, V, R) ==
    The({ The({ RootHit(first, t2, C, P, V, R)
              : first \in {RootHit(best, t1, C, P, V, R)} })
        : t1 \in {Div(-b - root, 2 * v_sq)},
          t2 \in {Div(-b + root, 2 * v_sq)} })

\* if discriminant >= 0.  With v_sq = 0 the roots are 0/0 = nan and both
\* comparisons are false.
Discriminant(best, b, c, v_sq, C, P, V, R) ==
    The({ IF discriminant >= 0 /\ v_sq # 0
          THEN The({ BothRoots(best, b, root, v_sq, C, P, V, R)
                   : root \in {Sqrt(discriminant)} })
          ELSE best
        : discriminant \in {Mul(b, b) - Mul(4 * v_sq, c)} })

\* one corner circle: |P + tV - C|^2 = R^2
CornerHit(best, C, P, V, R) ==
    The({ The({ Discriminant(best, b, c, v_sq, C, P, V, R)
              : b \in {2 * Dot(V, Delta)},
                c \in {Dot(Delta, Delta) - Mul(R, R)} })
        : v_sq \in {Dot(V, V)},
          Delta \in {<<P[1] - C[1], P[2] - C[2]>>} })

RECURSIVE Corners(_, _, _, _, _, _)
Corners(best, i, cs, P, V, R) ==
    IF i > Len(cs) THEN best
    ELSE The({ Corners(next, i + 1, cs, P, V, R)
             : next \in {CornerHit(best, cs[i], P, V, R)} })

\* get_next_collision of ads.py: [t, n], t = Inf when nothing is hit
RectCollision(P, V, W, H, R) ==
    The({ Corners(walls, 1, centers, P, V, R)
        : walls \in {Walls(P, V, W, H, R)}, centers \in {Centers(W, H, R)} })

\* ------------------------------------------------------- event generator

\* Reflect that removes the normal component instead of reversing it
ReflectAbsorbing(V, N) ==
    The({ <<V[1] - Mul(d, N[1]), V[2] - Mul(d, N[2])>> : d \in {Dot(V, N)} })

\* V - 2 (V . N) N
Reflect(V, N) ==
    The({ <<V[1] - Mul(2 * d, N[1]), V[2] - Mul(2 * d, N[2])>> : d \in {Dot(V, N)} })

\* P + V dt
Advance(P, V, dt) == <<P[1] + Mul(V[1], dt), P[2] + Mul(V[2], dt)>>

\* cos and sin of np.radians(37)
Cos37 == 799

Sin37 == 602

InitialVelocity(speed) == <<Mul(Cos37, speed), Mul(Sin37, speed)>>

\* --------------------------------- billiard_sim.py: ray-marching solver

\* the march step is 0.01 / |V|
MarchLen == 10

\* t = 1e-5, the offset past the wall just left
MarchOffset == 1

\* range(30000), the cap on march steps
MarchCap == 2

\* range(45), the bisection's iterations
BisectIters == 45

\* table_surface(P + V t) > 0.  The surface is built from arctan2, cos and
\* sin; along one ray it is given by its crossing time tc: the samples up
\* to tc lie in the playable area, the later ones outside.
Outside(t, tc) == t > tc

\* (t_low + t_high) / 2.0
Half(x) == Div(x, 2 * Scale)

\* the bisection's loop and t_hit.  An iteration that moves neither end
\* leaves the remaining ones without effect.
RECURSIVE Bisect(_, _, _, _)
Bisect(t_low, t_high, n, tc) ==
    IF n = 0 THEN Half(t_low + t_high)
    ELSE The({ IF Outside(t_mid, tc)
               THEN IF t_mid = t_high THEN t_mid
                    ELSE Bisect(t_low, t_mid, n - 1, tc)
               ELSE IF t_mid = t_low THEN t_mid
                    ELSE Bisect(t_mid, t_high, n - 1, tc)
             : t_mid \in {Half(t_low + t_high)} })

\* get_normal: the central-difference gradient g of the surface, normalised
GetNormal(g) ==
    The({ <<Div(g[1], len), Div(g[2], len)>> : len \in {Norm(g)} })

RECURSIVE March(_, _, _, _, _)
March(t, k, t_step, tc, g) ==
    IF k = MarchCap THEN Best(Inf, <<Scale, 0>>)
    ELSE The({ IF Outside(t_next, tc)
               THEN The({ Best(Bisect(t, t_next, BisectIters, tc),
                               <<-n[1], -n[2]>>)
                        : n \in {GetNormal(g)} })
               ELSE March(t_next, k + 1, t_step, tc, g)
             : t_next \in {t + t_step} })

\* get_next_collision of billiard_sim.py.  With |V| = 0 the step is
\* 0.01 / 0 = inf, every sample is nan, and nan > 0 is false.
HoleCollision(V, tc, g) ==
    The({ IF len = 0 THEN Best(Inf, <<Scale, 0>>)
          ELSE The({ March(MarchOffset, 0, t_step, tc, g)
                   : t_step \in {Div(MarchLen, len)} })
        : len \in {Norm(V)} })

\* ------------------------------------------------- trajectory evaluator

RECURSIVE SearchLeft(_, _, _, _)
SearchLeft(a, t, lo, hi) ==
    IF lo >= hi THEN lo
    ELSE The({ IF a[mid + 1] < t THEN SearchLeft(a, t, mid + 1, hi)
               ELSE SearchLeft(a, t, lo, mid)
             : mid \in {(lo + hi) \div 2} })

RECURSIVE SearchRight(_, _, _, _)
SearchRight(a, t, lo, hi) ==
    IF lo >= hi THEN lo
    ELSE The({ IF a[mid + 1] <= t THEN SearchRight(a, t, mid + 1, hi)
               ELSE SearchRight(a, t, lo, mid)
             : mid \in {(lo + hi) \div 2} })

\* SearchSorted with side='right': the number of entries not above t
SearchSortedRight(a, t) == SearchRight(a, t, 0, Len(a))

\* np.searchsorted(times, t): the number of entries below t
SearchSorted(a, t) == SearchLeft(a, t, 0, Len(a))

\* np.clip
Clip(i, lo, hi) == IF i < lo THEN lo ELSE IF i > hi THEN hi ELSE i

\* EvalIndex without the clip: Python takes index -1 as the last entry
EvalIndexUnclipped(ts, t) ==
    The({ IF i < 0 THEN Len(ts) + i ELSE i : i \in {SearchSorted(ts, t) - 1} })

\* the index of the event the position is computed from (0-based)
EvalIndex(ts, t) == Clip(SearchSorted(ts, t) - 1, 0, Len(ts) - 1)

\* EvalPosition with dt taken as times[idx] - t
EvalPositionBackward(ts, ps, vs, t) ==
    The({ The({ <<ps[i + 1][1] + Mul(vs[i + 1][1], d),
                  ps[i + 1][2] + Mul(vs[i + 1][2], d)>>
              : d \in {ts[i + 1] - t} })
        : i \in {EvalIndex(ts, t)} })

\* evaluate_trajectory for one query time
EvalPosition(ts, ps, vs, t) ==
    The({ The({ <<ps[i + 1][1] + Mul(vs[i + 1][1], d),
                  ps[i + 1][2] + Mul(vs[i + 1][2], d)>>
              : d \in {t - ts[i + 1]} })
        : i \in {EvalIndex(ts, t)} })

\* ------------------------------------------------------------- the runs

\* horizons of ads.py's runs, in seconds
MaxHorizon == 5

\* W, H, R of ads.py's runs: the spec's table, three more, and two whose
\* corner radius is not below half the shorter side; on the 4 x 5.012
\* table the first flight ends exactly where the right wall's straight span
\* does
RectTables ==
    { <<16 * Scale, 7 * Scale, 1500>>, <<4 * Scale, 8 * Scale, Scale>>,
      <<8 * Scale, 6 * Scale, 2 * Scale>>, <<4 * Scale, 5012, Scale>>,
      <<16 * Scale, 7 * Scale, 4 * Scale>>, <<16 * Scale, 7 * Scale, 3500>> }

RectSpeeds == {0, 3 * Scale, 6 * Scale}

RectHorizons == {k * Scale : k \in 1..MaxHorizon}

HoleWidths == {14 * Scale}

HoleSpeeds == {0, Scale}

HoleHorizons == {3, 8}

\* the crossing times the surface may give a ray: at once, within the
\* first step, within the second, never
Crossings == {0, 4, 13, Inf}

\* the gradients the surface may have at a hit
Gradients == {<<Scale, 0>>, <<-3 * Scale, 4 * Scale>>}

VARIABLES variant, W, H, R, speed, max_time,
          P, V, current_time, times, positions, velocities,
          dt, normal, calls, pc, queried, t_eval, idx, pos

vars == <<variant, W, H, R, speed, max_time, P, V, current_time, times,
          positions, velocities, dt, normal, calls, pc, queried, t_eval,
          idx, pos>>

config == <<variant, W, H, R, speed, max_time>>

query == <<queried, t_eval, idx, pos>>

\* generate_events up to its loop: the start event is in the log.  dt and
\* normal are not yet assigned; calls counts the solver's calls.
Start(p0) ==
    /\ P = p0
    /\ V = InitialVelocity(speed)
    /\ times = <<0>>
    /\ positions = <<p0>>
    /\ velocities = <<InitialVelocity(speed)>>
    /\ current_time = 0
    /\ dt = 0
    /\ normal = NoNormal
    /\ calls = 0
    /\ pc = "Running"
    /\ queried = FALSE
    /\ t_eval = 0
    /\ idx = 0
    /\ pos = p0

InitRect ==
    /\ variant = "rect"
    /\ \E tb \in RectTables : W = tb[1] /\ H = tb[2] /\ R = tb[3]
    /\ speed \in RectSpeeds
    /\ max_time \in RectHorizons
    /\ Start(<<0, 0>>)

InitHole ==
    /\ variant = "hole"
    /\ W \in HoleWidths
    /\ H = 7 * Scale
    /\ R = 0
    /\ speed \in HoleSpeeds
    /\ max_time \in HoleHorizons
    /\ Start(<<Div(-W, 3 * Scale), 0>>)

Init == InitRect \/ InitHole

\* what get_next_collision may return from the current P, V
Collisions ==
    IF variant = "rect" THEN {RectCollision(P, V, W, H, R)}
    ELSE {HoleCollision(V, tc, g) : tc \in Crossings, g \in Gradients}

\* the loop condition with <= for <
LoopConditionInclusive == current_time <= max_time

\* while current_time < max_time
LoopCondition == current_time < max_time

\* one pass of the loop that records a collision
Collide ==
    /\ pc = "Running"
    /\ LoopCondition
    /\ \E hit \in Collisions :
         /\ hit.t # Inf
         /\ dt' = hit.t
         /\ normal' = hit.n
         /\ P' = Advance(P, V, hit.t)
         /\ V' = Reflect(V, hit.n)
         /\ current_time' = current_time + hit.t
         /\ times' = Append(times, current_time + hit.t)
         /\ positions' = Append(positions, Advance(P, V, hit.t))
         /\ velocities' = Append(velocities, Reflect(V, hit.n))
    /\ calls' = calls + 1
    /\ UNCHANGED <<config, pc, query>>

\* NoCollision that records the failed attempt as an event before it stops
NoCollisionAppends ==
    /\ pc = "Running"
    /\ LoopCondition
    /\ \E hit \in Collisions :
         /\ hit.t = Inf
         /\ dt' = hit.t
         /\ normal' = hit.n
    /\ calls' = calls + 1
    /\ pc' = "Halted"
    /\ times' = Append(times, current_time)
    /\ positions' = Append(positions, P)
    /\ velocities' = Append(velocities, V)
    /\ UNCHANGED <<config, P, V, current_time, query>>

\* the pass in which the solver finds nothing: break
NoCollision ==
    /\ pc = "Running"
    /\ LoopCondition
    /\ \E hit \in Collisions :
         /\ hit.t = Inf
         /\ dt' = hit.t
         /\ normal' = hit.n
    /\ calls' = calls + 1
    /\ pc' = "Halted"
    /\ UNCHANGED <<config, P, V, current_time, times, positions, velocities,
                   query>>

\* the loop condition fails: the log is returned
HorizonReached ==
    /\ pc = "Running"
    /\ ~LoopCondition
    /\ pc' = "Halted"
    /\ UNCHANGED <<config, P, V, current_time, times, positions, velocities,
                   dt, normal, calls, query>>

\* the query times tried on a returned log: every event time, the middle
\* of every flight, the horizon, and two times past the last event
QueryTimes ==
    {times[i] : i \in 1..Len(times)}
      \cup {(times[i] + times[i + 1]) \div 2 : i \in 1..(Len(times) - 1)}
      \cup {max_time, times[Len(times)] + 1, times[Len(times)] + Scale}

\* evaluate_trajectory on the returned log
Evaluate ==
    /\ pc = "Halted"
    /\ \E t \in QueryTimes :
         /\ t_eval' = t
         /\ idx' = EvalIndex(times, t)
         /\ pos' = EvalPosition(times, positions, velocities, t)
    /\ queried' = TRUE
    /\ UNCHANGED <<config, P, V, current_time, times, positions, velocities,
                   dt, normal, calls, pc>>

Next == Collide \/ NoCollision \/ HorizonReached \/ Evaluate

Spec == Init /\ [][Next]_vars

\* the generator is one sequential loop: it always takes its next step
FairSpec == Spec /\ WF_vars(Next)

\* ------------------------------------------------------------ properties

Last == Len(times)

\* V . V
Speed2(v) == Dot(v, v)

\* the normals of the four straight walls, and of an axis-aligned gradient
WallNormals == {<<-Scale, 0>>, <<Scale, 0>>, <<0, -Scale>>, <<0, Scale>>}

\* the rounding a reflection may add to V . V: each component of a unit
\* normal is off by up to 1 / Scale, so |N|^2 is off by up to 3 / Scale and
\* V . V by up to 4 (V . N)^2 times that; the products add a few units
SpeedTol(s) == Mul(s, 12) + 4

\* a table whose corner radius is not below half its shorter side, or a
\* ball that does not move
ConfigError ==
    \/ variant = "rect" /\ 2 * R >= (IF W < H THEN W ELSE H)
    \/ speed = 0

\* the rounded rectangle, up to the solver's tolerance: within the
\* bounding box and, in a corner square, within the corner's circle
Inside(p) ==
    LET hw == Div(W, 2 * Scale)
        hh == Div(H, 2 * Scale)
        x == Abs(p[1])
        y == Abs(p[2])
        dx == x - (hw - R)
        dy == y - (hh - R)
    IN  /\ x <= hw + QuadTol
        /\ y <= hh + QuadTol
        /\ (dx > 0 /\ dy > 0) =>
              dx * dx + dy * dy <= (R + QuadTol) * (R + QuadTol)

\* the ordinate at which the first flight meets the right wall's line
YHit ==
    Mul(velocities[1][2], Div(Div(W, 2 * Scale), velocities[1][1]))

\* the least advance of an accepted collision: 1e-9, or the march's offset
MinAdvance == IF variant = "rect" THEN EpsTime ELSE MarchOffset

\* C1: in every event log of either solver the event times start at 0 and
\* are strictly increasing.
TimesIncreasing ==
    /\ times[1] = 0
    /\ \A i \in 1..(Last - 1) : times[i + 1] > times[i]

TimesIncreasingWitness == pc = "Halted" /\ Last >= 4

\* C2: the evaluator queried at exactly the time of event i returns the
\* position of event i, for every i, the start event included.
EvaluatorConsistency ==
    queried => \A i \in 1..Last : t_eval = times[i] => pos = positions[i]

EvaluatorConsistencyWitness ==
    queried /\ Last >= 3 /\ t_eval = times[3] /\ pos = positions[3]

\* C3 as stated: the evaluator computes the position from the latest event
\* whose time is <= t, so that a query at the time of event i > 0 is
\* evaluated from event i.
LatestEventAtOrBefore ==
    queried =>
        /\ times[idx + 1] <= t_eval
        /\ (idx + 1 < Last => times[idx + 2] > t_eval)

\* C3 as amended: the evaluator computes the position from the latest event
\* whose time is strictly below t, and from event 0 when there is none; a
\* query at the time of event i > 0 is evaluated from event i - 1.
LatestEventBefore ==
    queried =>
        IF t_eval <= times[1] THEN idx = 0
        ELSE /\ times[idx + 1] < t_eval
             /\ (idx + 1 < Last => times[idx + 2] >= t_eval)

LatestEventBeforeWitness ==
    queried /\ \E i \in 2..Last : t_eval = times[i] /\ idx = i - 2

\* C4: a query after the last event is evaluated from the last event, as
\* last position + last velocity * (t - last time), and the index chosen
\* is always one of the log.
Extrapolation ==
    queried =>
        /\ idx \in 0..(Last - 1)
        /\ t_eval > times[Last] =>
              /\ idx = Last - 1
              /\ pos = <<positions[Last][1]
                           + Mul(velocities[Last][1], t_eval - times[Last]),
                         positions[Last][2]
                           + Mul(velocities[Last][2], t_eval - times[Last])>>

ExtrapolationWitness ==
    queried /\ Last >= 2 /\ t_eval > times[Last] /\ pos # positions[Last]

\* C5: when the solver returns infinity the generator halts and appends
\* nothing for the failed call: the log holds one event per earlier call
\* and the start event, its three lists are equally long, and its last time
\* is the time reached, below the horizon.
TruncatedLog ==
    dt = Inf =>
        /\ pc = "Halted"
        /\ Last = calls
        /\ Last >= 1
        /\ Len(positions) = Last
        /\ Len(velocities) = Last
        /\ times[Last] = current_time
        /\ positions[Last] = P
        /\ current_time < max_time

TruncatedLogWitness == dt = Inf /\ Last >= 2

\* C6: a configuration error is rejected before the simulation starts: the
\* solver is never called and no collision event is appended.
ConfigRejected == ConfigError => calls = 0 /\ Last = 1

\* C7 as stated: every velocity in the log has the squared speed of the
\* initial velocity.
SpeedConserved ==
    \A i \in 1..Len(velocities) :
        Speed2(velocities[i]) = Speed2(velocities[1])

\* C7 as amended: a reflection keeps the squared speed up to rounding:
\* exactly off a straight wall, within the rounding of the unit normal off
\* a corner arc or a ray-marched boundary.
SpeedConservedWithinRounding ==
    [][times' # times =>
         /\ Abs(Speed2(V') - Speed2(V)) <= SpeedTol(Speed2(V))
         /\ normal' \in WallNormals => Speed2(V') = Speed2(V)]_vars

SpeedConservedWithinRoundingWitness ==
    /\ Last >= 3
    /\ normal \notin WallNormals
    /\ Speed2(velocities[Last]) # Speed2(velocities[Last - 1])

\* C8: every position the evaluator returns for a time within the horizon
\* lies inside the rounded rectangle.
Containment ==
    (queried /\ variant = "rect" /\ t_eval <= max_time) => Inside(pos)

Termination ==
    /\ <>(pc = "Halted")
    /\ [](pc = "Halted" => (current_time >= max_time \/ dt = Inf))
    /\ [](\A i \in 1..(Last - 1) : times[i] < max_time)
    /\ [][times' # times => current_time' - current_time > MinAdvance]_vars

TerminationWitness ==
    pc = "Halted" /\ current_time >= max_time /\ Last >= 3 /\ dt # Inf

====
